---- MODULE Spec2Model ----
(***************************************************************************)
(* Model of selfdrive/controls/radard.py: the radar/vision lead fusion     *)
(* (Track, match_vision_to_track, get_lead, get_path_adjacent_leads,       *)
(* RadarD.update, RadarD.publish, radard_thread).                          *)
(*                                                                         *)
(* Numbers are fixed point.  Distances, speeds, accelerations and          *)
(* probabilities are in hundredths (1.52 m = 152, prob 0.5 = 50); the      *)
(* Kalman gains and the radar time step are in 1/10000; aLeadTau is in     *)
(* millionths (1.5 = 1500000), which keeps 1.5 * 0.9^N exact for N <= 5.   *)
(* Python's None is the empty sequence, a present value v is <<v>>.        *)
(***************************************************************************)
EXTENDS Integers, Sequences, FiniteSets, TLC

----------------------------------------------------------------------------
(* Program constants *)

LEAD_PATH_DREL_MIN == 6000
MIN_LANE_PROB == 60
LEAD_ACCEL_TAU == 1500000
V_EGO_STATIONARY == 400
RADAR_TO_CAMERA == 152
\* length of the model's trajectory arrays (lane_planner.TRAJECTORY_SIZE is 33;
\* the model's arrays have this many points)
TRAJECTORY_SIZE == 3

\* radar time step 0.05 s and the gains tabulated for it (5th table entries)
RADAR_TS == 500
GainK0 == 1989
GainK1 == 2856
GainScale == 10000

\* aLeadTau of a vision-only lead (0.3) and the decay factor 0.9 as 9/10
VISION_A_LEAD_TAU == 300000
TauDecayNum == 9
TauDecayDen == 10

----------------------------------------------------------------------------
(* Bounds of the model *)

\* a track is updated at most MaxCnt times in a row
MaxCnt == 2
\* longest radar frame, in points
MaxPts == 2
\* a track is updated at most MaxRun times in a row where one track is followed longer
MaxRun == 4
TrackIds == {1, 2}

\* the radar delays RadarD is built with (the ego-velocity history holds delay + 1 samples)
Delays == {0, 1}

----------------------------------------------------------------------------
(* Arithmetic helpers *)

Abs(x) == IF x < 0 THEN -x ELSE x

Max(a, b) == IF a >= b THEN a ELSE b

Last(s) == s[Len(s)]

\* numpy_fast.interp: clamped piecewise linear interpolation of (xp, fp) at x
RECURSIVE interp_seg(_, _, _, _)
interp_seg(x, xp, fp, i) ==
  IF i >= Len(xp) THEN Last(fp)
  ELSE IF x <= xp[i + 1]
       THEN IF xp[i + 1] = xp[i] THEN fp[i]
            ELSE fp[i] + ((x - xp[i]) * (fp[i + 1] - fp[i])) \div (xp[i + 1] - xp[i])
       ELSE interp_seg(x, xp, fp, i + 1)

interp(x, xp, fp) ==
  IF x <= xp[1] THEN fp[1]
  ELSE IF x >= Last(xp) THEN Last(fp)
  ELSE interp_seg(x, xp, fp, 1)

----------------------------------------------------------------------------
(* KF1D: the two-state filter, x = <<velocity, acceleration>> *)

KF1D_init(x0, x1) == <<x0, x1>>

KF1D_update(x, meas) ==
  << ((GainScale - GainK0) * x[1] + RADAR_TS * x[2] + GainK0 * meas) \div GainScale,
     ((0 - GainK1) * x[1] + GainScale * x[2] + GainK1 * meas) \div GainScale >>

----------------------------------------------------------------------------
(* KalmanParams: the gain table, dt in 1/10000 s, gains in 1e-8 *)

KalmanDts == [k \in 1..20 |-> 100 * k]

KalmanK0 ==
  << 12287673, 14556536, 16522756, 18281627, 19886890, 21372394,
     22761098, 24069424, 25309600, 26491023, 27621103, 28705801,
     29750003, 30757767, 31732515, 32677158, 33594201, 34485814,
     35353899, 36200124 >>

KalmanK1 ==
  << 29666309, 29330885, 29042818, 28787125, 28555364, 28342219,
     28144091, 27958406, 27783249, 27617149, 27458948, 27307714,
     27162685, 27023228, 26888809, 26758976, 26633338, 26511557,
     26393339, 26278425 >>

\* the assertion of KalmanParams.__init__
KalmanParams_accepts(dt) == dt > 100 /\ dt < 2000

\* KalmanParams(dt), for a dt the assertion accepts
KalmanParams(dt) ==
  [ A |-> << <<GainScale, dt>>, <<0, GainScale>> >>,
    C |-> <<GainScale, 0>>,
    K |-> << interp(dt, KalmanDts, KalmanK0), interp(dt, KalmanDts, KalmanK1) >> ]

----------------------------------------------------------------------------
(* Track *)

\* mutant of Track_init: the filter is not seeded with v_lead
Track_init_unseeded(identifier, v_lead) ==
  [ identifier |-> identifier, cnt |-> 0, aLeadTau |-> LEAD_ACCEL_TAU,
    kf |-> KF1D_init(0, 0),
    dRel |-> 0, yRel |-> 0, vRel |-> 0, vLead |-> 0, measured |-> FALSE,
    vLeadK |-> 0, aLeadK |-> 0 ]

\* Track.__init__: the measured fields do not exist until the first update
\* (RadarD.update always updates a track it creates); they are 0 / FALSE here.
Track_init(identifier, v_lead) ==
  [ identifier |-> identifier,
    cnt        |-> 0,
    aLeadTau   |-> LEAD_ACCEL_TAU,
    kf         |-> KF1D_init(v_lead, 0),
    dRel |-> 0, yRel |-> 0, vRel |-> 0, vLead |-> 0, measured |-> FALSE,
    vLeadK |-> 0, aLeadK |-> 0 ]

\* mutant of TrackFilterStep: the filter is stepped on every update
TrackFilterStep_always(t, v_lead) == KF1D_update(t.kf, v_lead)

\* the filter step of Track.update: stepped only when cnt > 0
TrackFilterStep(t, v_lead) ==
  IF t.cnt > 0 THEN KF1D_update(t.kf, v_lead) ELSE t.kf

\* mutant of TrackTau: aLeadTau decays on every update
TrackTau_decays(aLeadTau, aLeadK) == (aLeadTau * TauDecayNum) \div TauDecayDen

\* the aLeadTau rule of Track.update
TrackTau(aLeadTau, aLeadK) ==
  IF Abs(aLeadK) < 50 THEN LEAD_ACCEL_TAU
  ELSE (aLeadTau * TauDecayNum) \div TauDecayDen

Track_update(t, d_rel, y_rel, v_rel, v_lead, measured) ==
  LET kf == TrackFilterStep(t, v_lead)
  IN [ t EXCEPT !.dRel = d_rel, !.yRel = y_rel, !.vRel = v_rel,
                !.vLead = v_lead, !.measured = measured,
                !.kf = kf, !.vLeadK = kf[1], !.aLeadK = kf[2],
                !.aLeadTau = TrackTau(t.aLeadTau, kf[2]),
                !.cnt = t.cnt + 1 ]

is_potential_fcw(model_prob) == model_prob > 90

potential_low_speed_lead(t, v_ego) ==
  Abs(t.yRel) < 100 /\ v_ego < V_EGO_STATIONARY /\ 75 < t.dRel /\ t.dRel < 2500

\* the record a lead is published as; DefaultLead is the capnp default a lead of
\* a new RadarState message has, and what {'status': False} becomes in it
DefaultLead ==
  [ dRel |-> 0, yRel |-> 0, vRel |-> 0, vLead |-> 0, vLeadK |-> 0, aLeadK |-> 0,
    aLeadTau |-> 0, status |-> FALSE, fcw |-> FALSE, modelProb |-> 0,
    radar |-> FALSE, radarTrackId |-> -1 ]

\* mutant of get_RadarState2: the vision acceleration is taken whatever the
\* hypothesis' probability
get_RadarState2_any_prob(t, model_prob, lead_msg, mixRadarInfo) ==
  LET useVisionMix == mixRadarInfo > 0 /\ Abs(t.aLeadK) < Abs(lead_msg.a[1])
  IN [ dRel |-> t.dRel,
       yRel |-> IF mixRadarInfo = 0 \/ t.yRel # 0 THEN t.yRel ELSE 0 - lead_msg.y[1],
       vRel |-> t.vRel,
       vLead |-> t.vLead,
       vLeadK |-> t.vLeadK,
       aLeadK |-> IF useVisionMix THEN lead_msg.a[1] ELSE t.aLeadK,
       aLeadTau |-> t.aLeadTau,
       status |-> TRUE,
       fcw |-> is_potential_fcw(model_prob),
       modelProb |-> model_prob,
       radar |-> TRUE,
       radarTrackId |-> t.identifier ]

get_RadarState2(t, model_prob, lead_msg, mixRadarInfo) ==
  LET useVisionMix == mixRadarInfo > 0 /\ lead_msg.prob > 50
                      /\ Abs(t.aLeadK) < Abs(lead_msg.a[1])
  IN [ dRel |-> t.dRel,
       yRel |-> IF mixRadarInfo = 0 \/ t.yRel # 0 THEN t.yRel ELSE 0 - lead_msg.y[1],
       vRel |-> t.vRel,
       vLead |-> t.vLead,
       vLeadK |-> t.vLeadK,
       aLeadK |-> IF useVisionMix THEN lead_msg.a[1] ELSE t.aLeadK,
       aLeadTau |-> t.aLeadTau,
       status |-> TRUE,
       fcw |-> is_potential_fcw(model_prob),
       modelProb |-> model_prob,
       radar |-> TRUE,
       radarTrackId |-> t.identifier ]

----------------------------------------------------------------------------
(* Vision association *)

\* laplacian_pdf(x, mu, b) is exp(-e) with e = |x - mu| / max(b, 1e-4); this is e
\* (times 100).  b is in hundredths, so max(b, 1e-4) is Max(100 * b, 1) / 10000.
laplacian_exponent(x, mu, b) == (Abs(x - mu) * 10000) \div Max(100 * b, 1)

\* prob(c) of match_vision_to_track is exp(-match_exponent): the product of the
\* three laplacian_pdf values.  A larger prob is a smaller exponent.
match_exponent(v_ego, lead, c) ==
  laplacian_exponent(c.dRel, lead.x[1] - RADAR_TO_CAMERA, lead.xStd[1])
  + laplacian_exponent(c.yRel, 0 - lead.y[1], lead.yStd[1])
  + laplacian_exponent(c.vRel + v_ego, lead.v[1], lead.vStd[1])

\* max(tracks.values(), key=prob): the first track, in the map's order, whose
\* prob no other track exceeds
best_match(v_ego, lead, tracks) ==
  LET best == CHOOSE i \in 1..Len(tracks) :
                /\ \A j \in 1..Len(tracks) :
                     match_exponent(v_ego, lead, tracks[i]) <= match_exponent(v_ego, lead, tracks[j])
                /\ \A j \in 1..(i - 1) :
                     match_exponent(v_ego, lead, tracks[j]) > match_exponent(v_ego, lead, tracks[i])
  IN tracks[best]

dist_sane(lead, track) ==
  LET offset_vision_dist == lead.x[1] - RADAR_TO_CAMERA
  IN Abs(track.dRel - offset_vision_dist) * 100 < Max(offset_vision_dist * 35, 50000)

vel_sane(v_ego, lead, track) ==
  Abs(track.vRel + v_ego - lead.v[1]) < 1000 \/ v_ego + track.vRel > 300

\* mutant of match_vision_to_track: the sanity gates are skipped
match_vision_to_track_ungated(v_ego, lead, tracks) == << best_match(v_ego, lead, tracks) >>

\* <<track>> when the best match is sane, <<>> (None) otherwise
match_vision_to_track(v_ego, lead, tracks) ==
  LET track == best_match(v_ego, lead, tracks)
  IN IF dist_sane(lead, track) /\ vel_sane(v_ego, lead, track) THEN <<track>> ELSE <<>>

\* mutant of get_RadarState_from_vision: the record carries the radar tracks'
\* initial aLeadTau
get_RadarState_from_vision_radar_tau(lead_msg, v_ego, model_v_ego) ==
  LET lead_v_rel_pred == lead_msg.v[1] - model_v_ego
  IN [ dRel |-> lead_msg.x[1] - RADAR_TO_CAMERA,
       yRel |-> 0 - lead_msg.y[1],
       vRel |-> lead_v_rel_pred,
       vLead |-> v_ego + lead_v_rel_pred,
       vLeadK |-> v_ego + lead_v_rel_pred,
       aLeadK |-> 0,
       aLeadTau |-> LEAD_ACCEL_TAU,
       status |-> TRUE,
       fcw |-> FALSE,
       modelProb |-> lead_msg.prob,
       radar |-> FALSE,
       radarTrackId |-> -1 ]

get_RadarState_from_vision(lead_msg, v_ego, model_v_ego) ==
  LET lead_v_rel_pred == lead_msg.v[1] - model_v_ego
  IN [ dRel |-> lead_msg.x[1] - RADAR_TO_CAMERA,
       yRel |-> 0 - lead_msg.y[1],
       vRel |-> lead_v_rel_pred,
       vLead |-> v_ego + lead_v_rel_pred,
       vLeadK |-> v_ego + lead_v_rel_pred,
       aLeadK |-> 0,
       aLeadTau |-> VISION_A_LEAD_TAU,
       status |-> TRUE,
       fcw |-> FALSE,
       modelProb |-> lead_msg.prob,
       radar |-> FALSE,
       radarTrackId |-> -1 ]

----------------------------------------------------------------------------
(* Lead selector *)

\* mutant of association_called: prob 0.5 is enough
association_called_at_half(ready, tracks, lead_msg) ==
  Len(tracks) > 0 /\ ready /\ lead_msg.prob >= 50

\* the condition under which get_lead calls match_vision_to_track
association_called(ready, tracks, lead_msg) ==
  Len(tracks) > 0 /\ ready /\ lead_msg.prob > 50

\* the track get_lead chooses: <<track>> or <<>> (None)
get_lead_track(v_ego, ready, tracks, lead_msg) ==
  IF association_called(ready, tracks, lead_msg)
  THEN match_vision_to_track(v_ego, lead_msg, tracks)
  ELSE <<>>

\* lead_dict of get_lead before the low-speed override
get_lead_vision(v_ego, ready, tracks, lead_msg, model_v_ego, mixRadarInfo) ==
  LET track == get_lead_track(v_ego, ready, tracks, lead_msg)
  IN IF track # <<>>
     THEN get_RadarState2(track[1], lead_msg.prob, lead_msg, mixRadarInfo)
     ELSE IF ready /\ lead_msg.prob > 50
          THEN get_RadarState_from_vision(lead_msg, v_ego, model_v_ego)
          ELSE DefaultLead

low_speed_tracks(tracks, v_ego) ==
  SelectSeq(tracks, LAMBDA c : potential_low_speed_lead(c, v_ego))

\* mutant of closest_track: the first qualifying track, not the closest
closest_track_first(lst) == lst[1]

\* min(low_speed_tracks, key=dRel): the first of the tracks with the least dRel
closest_track(lst) ==
  LET k == CHOOSE i \in 1..Len(lst) :
             /\ \A j \in 1..Len(lst) : lst[i].dRel <= lst[j].dRel
             /\ \A j \in 1..(i - 1) : lst[j].dRel > lst[i].dRel
  IN lst[k]

\* the low-speed override step of get_lead, applied to lead_dict
low_speed_step(lead_dict, v_ego, tracks, lead_msg, mixRadarInfo) ==
  LET lst == low_speed_tracks(tracks, v_ego)
  IN IF Len(lst) > 0
     THEN LET closest == closest_track(lst)
          IN IF (~lead_dict.status) \/ closest.dRel < lead_dict.dRel
             THEN get_RadarState2(closest, lead_msg.prob, lead_msg, mixRadarInfo)
             ELSE lead_dict
     ELSE lead_dict

get_lead(v_ego, ready, tracks, lead_msg, model_v_ego, low_speed_override, mixRadarInfo) ==
  LET lead_dict == get_lead_vision(v_ego, ready, tracks, lead_msg, model_v_ego, mixRadarInfo)
  IN IF low_speed_override
     THEN low_speed_step(lead_dict, v_ego, tracks, lead_msg, mixRadarInfo)
     ELSE lead_dict

----------------------------------------------------------------------------
(* Path classification *)

\* integer square root by bisection: the r with r*r <= n < (r+1)*(r+1)
RECURSIVE isqrt_between(_, _, _)
isqrt_between(n, lo, hi) ==
  IF lo >= hi THEN lo
  ELSE LET mid == (lo + hi + 1) \div 2
       IN IF mid * mid <= n THEN isqrt_between(n, mid, hi)
          ELSE isqrt_between(n, lo, mid - 1)

isqrt(n) == isqrt_between(n, 0, 46340)

\* a Python dict as the sequence of its [key, val] items in insertion order
dict_put(d, k, v) ==
  IF \E i \in 1..Len(d) : d[i].key = k
  THEN [i \in 1..Len(d) |-> IF d[i].key = k THEN [key |-> k, val |-> v] ELSE d[i]]
  ELSE Append(d, [key |-> k, val |-> v])

\* sorted(items, key=item.key): stable insertion sort of [key, val] items
RECURSIVE insert_sorted(_, _)
insert_sorted(s, e) ==
  IF s = <<>> THEN <<e>>
  ELSE IF e.key < Last(s).key
       THEN Append(insert_sorted(SubSeq(s, 1, Len(s) - 1), e), Last(s))
       ELSE Append(s, e)

RECURSIVE sorted(_)
sorted(s) ==
  IF s = <<>> THEN <<>>
  ELSE insert_sorted(sorted(SubSeq(s, 1, Len(s) - 1)), Last(s))

dict_values(d) == [i \in 1..Len(d) |-> d[i].val]

\* c_y: the centerline from the lane lines, <<c_y>> or <<>> (None)
lane_center(md, lane_width) ==
  IF md # <<>> /\ lane_width > 0 /\ Len(md[1].laneLines) = 4
     /\ Len(md[1].laneLines[2].x) = TRAJECTORY_SIZE
  THEN LET lll_y == md[1].laneLines[2].y
           rll_y == md[1].laneLines[3].y
           l_prob == md[1].laneLineProbs[2]
           r_prob == md[1].laneLineProbs[3]
       IN IF l_prob > MIN_LANE_PROB /\ r_prob > MIN_LANE_PROB
          THEN << [i \in 1..Len(lll_y) |-> (lll_y[i] + rll_y[i]) \div 2] >>
          ELSE IF l_prob > MIN_LANE_PROB
          THEN << [i \in 1..Len(lll_y) |-> lll_y[i] + lane_width \div 2] >>
          ELSE IF r_prob > MIN_LANE_PROB
          THEN << [i \in 1..Len(rll_y) |-> rll_y[i] - lane_width \div 2] >>
          ELSE <<>>
  ELSE <<>>

\* the guard that decides whether the model path is taken (md_y is not None)
model_path_taken(md) ==
  md # <<>> \/ Len(md[1].position.x) = TRAJECTORY_SIZE
            \/ Last(md[1].position.x) > LEAD_PATH_DREL_MIN

\* dPath of one cluster c
cluster_dPath(c, md, c_y) ==
  LET md_y_set == model_path_taken(md)
      md_x == md[1].position.x
      md_y == md[1].position.y
      ll_x == md[1].laneLines[2].x
  IN IF (md_y_set /\ c.dRel <= Last(md_x))
        \/ (c_y # <<>> /\ Last(md_x) - c.dRel < Last(ll_x) - c.dRel)
     THEN (0 - c.yRel) - interp(c.dRel, md_x, md_y)
     ELSE IF c_y # <<>>
          THEN (0 - c.yRel) - interp(c.dRel, ll_x, c_y[1])
          ELSE 0 - c.yRel

\* the record of one cluster: get_RadarState2 plus dPath and vLat
adjacent_lead(c, md, c_y, mixRadarInfo) ==
  LET lead_msg == md[1].leadsV3[1]
      dPath == cluster_dPath(c, md, c_y)
  IN [ ld |-> get_RadarState2(c, lead_msg.prob, lead_msg, mixRadarInfo),
       dPath |-> dPath,
       vLat |-> isqrt((10 * dPath) * (10 * dPath) + c.dRel * c.dRel) ]

\* the three dicts <<leads_left, leads_center, leads_right>> after clusters 1..n
RECURSIVE classify(_, _, _, _, _, _)
classify(clusters, n, md, c_y, half_lane_width, mixRadarInfo) ==
  IF n = 0 THEN << <<>>, <<>>, <<>> >>
  ELSE LET prev == classify(clusters, n - 1, md, c_y, half_lane_width, mixRadarInfo)
           ld == adjacent_lead(clusters[n], md, c_y, mixRadarInfo)
       IN IF Abs(ld.dPath) < half_lane_width /\ ld.ld.vLeadK > -100
          THEN << prev[1], dict_put(prev[2], Abs(ld.dPath), ld), prev[3] >>
          ELSE IF ld.dPath < 0
          THEN << dict_put(prev[1], Abs(ld.dPath), ld), prev[2], prev[3] >>
          ELSE << prev[1], prev[2], dict_put(prev[3], Abs(ld.dPath), ld) >>

\* the values of a dict keyed by their dRel, for sorted(.., key=dRel)
by_dRel(d) == [i \in 1..Len(d) |-> [key |-> d[i].val.ld.dRel, val |-> d[i].val]]

\* <<ll, lc, lr>>
get_path_adjacent_leads(v_ego, md, lane_width, clusters, mixRadarInfo) ==
  IF Len(clusters) = 0 THEN << <<>>, <<>>, <<>> >>
  ELSE LET c_y == lane_center(md, lane_width)
           d == classify(clusters, Len(clusters), md, c_y, lane_width \div 2, mixRadarInfo)
       IN << dict_values(sorted(d[1])),
             dict_values(sorted(by_dRel(d[2]))),
             dict_values(sorted(d[3])) >>

----------------------------------------------------------------------------
(* Inputs: radar frames, SubMaster snapshots, parameters *)

Point(id, d, y, v, m) == [trackId |-> id, dRel |-> d, yRel |-> y, vRel |-> v, measured |-> m]

\* radar points: two close slow ones (5 m and 10 m ahead) and a far one (48.48 m
\* ahead, going 5 m/s faster than ego)
PointA(id) == Point(id, 500, 20, 0, TRUE)
PointB(id) == Point(id, 1000, 0, 0, TRUE)
PointC(id) == Point(id, 4848, 0, 500, FALSE)

\* a point 20 m ahead, to the side, closing at 5 m/s
PointD(id) == Point(id, 2000, -50, -500, TRUE)

\* points 2.5 m and 4 m to the left of the car, and 2.5 m to the right (yRel is
\* positive to the left)
PointL(id) == Point(id, 3000, 250, 0, TRUE)
PointL2(id) == Point(id, 1500, 250, 0, TRUE)
PointLL(id) == Point(id, 2000, 400, 0, TRUE)
PointR(id) == Point(id, 3000, -250, 0, TRUE)

\* the points of the frames that vary freely: near for every id, far for id 1
RadarPoints == { PointA(id) : id \in TrackIds } \cup { PointC(1) }

SeqsUpTo(S, n) == UNION { [1..k -> S] : k \in 0..n }

\* car.RadarData as RadarInterface.update returns it
RadarData(points, errors) == [points |-> points, errors |-> errors]

Lead(x, y, v, a, std, prob) ==
  [ x |-> <<x>>, y |-> <<y>>, v |-> <<v>>, a |-> <<a>>,
    xStd |-> <<std>>, yStd |-> <<std>>, vStd |-> <<std>>, prob |-> prob ]

\* lead hypotheses of the model: a confident far lead, a likely near lead, and the
\* far lead at prob 0.5 exactly
LeadFar  == Lead(5000, 0, 1500, 0, 100, 95)
LeadNear == Lead(652, -20, 0, -300, 100, 80)
LeadWeak == Lead(5000, 0, 1500, 0, 100, 50)

PathX == <<0, 3000, 10000>>

LaneLine(y) == [x |-> PathX, y |-> <<y, y, y>>]

\* modelV2 before any message was received: every list empty
DefaultModel ==
  [ leadsV3 |-> <<>>, temporalPose_trans |-> <<>>, laneLines |-> <<>>,
    laneLineProbs |-> <<>>, position |-> [x |-> <<>>, y |-> <<>>] ]

\* a modelV2 message of the model: a straight path between two confident lane lines
ModelMsg(leads, trans) ==
  [ leadsV3 |-> leads, temporalPose_trans |-> trans,
    laneLines |-> << LaneLine(-540), LaneLine(-180), LaneLine(180), LaneLine(540) >>,
    laneLineProbs |-> <<90, 90, 90, 90>>,
    position |-> [x |-> PathX, y |-> <<0, 0, 0>>] ]

\* what RadarD.update reads of the SubMaster
SubMaster(uc, v, um, m, ok) ==
  [ updated_carState |-> uc, vEgo |-> v, updated_modelV2 |-> um, modelV2 |-> m,
    laneWidth |-> 360, all_checks |-> ok ]

\* the parameter store: ShowRadarInfo and MixRadarInfo, both set
Params(show, mix) == [ShowRadarInfo |-> show, MixRadarInfo |-> mix, missing |-> {}]

\* the parameter store without the parameters names: Params().get returns None for them
ParamsMissing(names) == [ShowRadarInfo |-> 0, MixRadarInfo |-> 0, missing |-> names]

\* CP.radarTimeStep: every millisecond from 9 ms to 201 ms
RadarTimeSteps == { 10 * k : k \in 9..201 }

\* carState of a cycle, <<updated, vEgo>>: no new message, or one reporting 10 m/s
CarStates == { <<FALSE, 0>>, <<TRUE, 1000>> }

TwoLeads == ModelMsg(<<LeadFar, LeadNear>>, <<1000>>)

\* Cycles that vary the radar frame and the car state
TrackCycles ==
  { << SubMaster(c[1], c[2], TRUE, TwoLeads, TRUE), <<RadarData(f, <<>>)>>, Params(0, 0) >> :
      c \in CarStates, f \in SeqsUpTo(RadarPoints, MaxPts) }

\* a few radar frames: no point, one near point, a far and a near one, two near ones
\* with the closer one last
FewFrames ==
  { <<>>, <<PointA(1)>>, <<PointC(1), PointA(2)>>, <<PointB(2), PointA(1)>> }

\* modelV2 messages with two lead hypotheses
FewModels ==
  { TwoLeads, ModelMsg(<<LeadNear, LeadFar>>, <<>>), ModelMsg(<<LeadWeak, LeadWeak>>, <<1000>>) }

\* Cycles that vary the model's message, whether it is new, and the car state
LeadCycles ==
  { << SubMaster(c[1], c[2], um, m, TRUE), <<RadarData(f, <<>>)>>, Params(0, 0) >> :
      c \in CarStates, um \in BOOLEAN, m \in FewModels, f \in FewFrames }

\* a modelV2 message with lane-line probabilities l and r for the two inner lines and
\* the path (px, py)
PathModel(l, r, px, py) ==
  [ TwoLeads EXCEPT !.laneLineProbs = <<90, l, r, 90>>, !.position = [x |-> px, y |-> py] ]

\* paths of the model: straight to 100 m, curving to 100 m, curving but ending at 50 m,
\* and one of two points only
ModelPaths ==
  { << PathX, <<0, 0, 0>> >>, << PathX, <<0, 100, 300>> >>,
    << <<0, 1000, 5000>>, <<0, 100, 300>> >>, << <<0, 3000>>, <<0, 100>> >> }

\* radar frames for the corridors: left and right, two at the centre of the path, one in
\* the centre and one closing fast, two to the left in descending |dPath|, a far and a
\* near one in the centre, two to the left at the same lateral offset
PathFrames ==
  { <<>>, <<PointL(1), PointR(2)>>, <<PointC(1), PointB(2)>>, <<PointA(1), PointD(2)>>,
    <<PointLL(1), PointL(2)>>, <<PointC(1), PointA(2)>>, <<PointL(1), PointL2(2)>> }

\* Cycles that vary the lane-line probabilities, the model's path and the radar frame,
\* with ShowRadarInfo set
PathCycles ==
  { << SubMaster(FALSE, 0, TRUE, PathModel(lr[1], lr[2], xy[1], xy[2]), TRUE),
       <<RadarData(f, <<>>)>>, Params(1, 0) >> :
      lr \in { <<90, 90>>, <<90, 30>>, <<30, 90>>, <<60, 60>> },
      xy \in ModelPaths, f \in PathFrames }

\* Cycles that follow one track: no point or one point of id 1 whose vRel is 0, 5 or
\* -5 m/s, the car state missing or reporting 10 m/s or 0 m/s
FilterCycles ==
  { << SubMaster(c[1], c[2], TRUE, TwoLeads, TRUE), <<RadarData(f, <<>>)>>, Params(0, 0) >> :
      c \in CarStates \cup { <<TRUE, 0>> },
      f \in { <<>>, <<PointA(1)>>, <<PointC(1)>>, <<PointD(1)>> } }

\* a modelV2 message whose path arrays are empty
EmptyPathModel == [TwoLeads EXCEPT !.position = [x |-> <<>>, y |-> <<>>]]

\* Cycles with and without a fault: a parameter that is not set, a model message with
\* an empty path
FaultCycles ==
  { << SubMaster(FALSE, 0, um, m, TRUE), <<RadarData(f, <<>>)>>, q >> :
      um \in BOOLEAN, m \in { TwoLeads, EmptyPathModel },
      f \in { <<>>, <<PointA(1)>>, <<PointC(1), PointA(2)>> },
      q \in { Params(0, 0), Params(1, 0),
              ParamsMissing({"ShowRadarInfo"}), ParamsMissing({"MixRadarInfo"}) } }

\* Cycles that vary the subscription checks, the radar errors and the parameters
OutputCycles ==
  { << SubMaster(FALSE, 0, FALSE, m, h[1]), <<RadarData(<<PointC(1), PointA(2)>>, h[2])>>,
       Params(q[1], q[2]) >> :
      m \in { DefaultModel, ModelMsg(<<LeadFar>>, <<1000>>), TwoLeads },
      h \in { <<TRUE, <<>> >>, <<TRUE, <<"canError">> >>, <<FALSE, <<>> >> },
      q \in { <<0, 0>>, <<1, 0>>, <<1, 1>> } }

----------------------------------------------------------------------------
(* RadarD *)

VARIABLES
  pc,                 \* radard_thread: "update" before RD.update, "publish" before RD.publish
  delay,              \* RI.delay, given to RadarD.__init__
  tracks,             \* self.tracks: the tracks in the dict's insertion order
  v_ego,              \* self.v_ego
  v_ego_hist,         \* self.v_ego_hist
  ready,              \* self.ready
  showRadarInfo,      \* self.showRadarInfo (False at construction is 0)
  mixRadarInfo,       \* self.mixRadarInfo
  radar_state,        \* self.radar_state: <<>> (None) or <<RadarState>>
  radar_state_valid,  \* self.radar_state_valid
  radar_msg,          \* the last radarState message sent, <<>> before the first
  tracks_msg,         \* the last liveTracks message sent, <<>> before the first
  call,               \* history: the arguments of the last RadarD.update and what it ran
  streak,             \* history: for each id, the number of latest frames in a row holding it
  lost,               \* history: the absent ids whose last track had a non-zero aLeadK
  radar_ts,           \* CP.radarTimeStep, in 1/10000 s
  kalman_params,      \* self.kalman_params: <<>> before RadarD is built, else <<KalmanParams>>
  run,                \* history: for each id, the vLead of each of the latest frames in a row holding it
  run_bound           \* the longest run of frames with one id that is explored

vars == << pc, delay, tracks, v_ego, v_ego_hist, ready, showRadarInfo, mixRadarInfo,
           radar_state, radar_state_valid, radar_msg, tracks_msg, call, streak, lost,
           radar_ts, kalman_params, run, run_bound >>

track_keys(trks) == { trks[i].identifier : i \in 1..Len(trks) }

track_of(trks, id) == trks[CHOOSE i \in 1..Len(trks) : trks[i].identifier = id]

\* radar_points of RadarD.update: rr.points, or [] when rr is None
radar_points_of(rr) == IF rr # <<>> THEN rr[1].points ELSE <<>>

radar_errors_of(rr) == IF rr # <<>> THEN rr[1].errors ELSE <<>>

\* ar_pts: the dict trackId -> point, in insertion order; a later point of the
\* same trackId replaces the earlier one
RECURSIVE ar_pts_of(_, _)
ar_pts_of(points, n) ==
  IF n = 0 THEN <<>>
  ELSE dict_put(ar_pts_of(points, n - 1), points[n].trackId, points[n])

ar_keys(ar_pts) == { ar_pts[i].key : i \in 1..Len(ar_pts) }

\* mutant of evict: no track is removed
evict_none(trks, ar_pts) == trks

\* remove missing points from meta data
evict(trks, ar_pts) ==
  SelectSeq(trks, LAMBDA t : t.identifier \in ar_keys(ar_pts))

\* one pass of the "compute the tracks" loop
upsert_one(trks, ids, rpt, v_ego_hist0) ==
  LET v_lead == rpt.vRel + v_ego_hist0
      with == IF ids \in track_keys(trks) THEN trks
              ELSE Append(trks, Track_init(ids, v_lead))
  IN [ i \in 1..Len(with) |->
         IF with[i].identifier = ids
         THEN Track_update(with[i], rpt.dRel, rpt.yRel, rpt.vRel, v_lead, rpt.measured)
         ELSE with[i] ]

RECURSIVE upsert(_, _, _, _)
upsert(trks, ar_pts, n, v_ego_hist0) ==
  IF n = 0 THEN trks
  ELSE upsert_one(upsert(trks, ar_pts, n - 1, v_ego_hist0),
                  ar_pts[n].key, ar_pts[n].val, v_ego_hist0)

\* self.tracks after the evict and upsert steps of RadarD.update
update_tracks(trks, rr, v_ego_hist0) ==
  LET ar_pts == ar_pts_of(radar_points_of(rr), Len(radar_points_of(rr)))
  IN upsert(evict(trks, ar_pts), ar_pts, Len(ar_pts), v_ego_hist0)

\* mutant of deque_append: a full history keeps its oldest sample and drops the new one
deque_append_keeps_oldest(hist, v, maxlen) ==
  IF Len(hist) >= maxlen THEN hist ELSE Append(hist, v)

\* deque.append with maxlen = delay + 1
deque_append(hist, v, maxlen) ==
  IF Len(hist) >= maxlen THEN Append(Tail(hist), v) ELSE Append(hist, v)

\* mutant of ready_after: ready follows the model's update flag, it does not latch
ready_after_unlatched(rdy, sm) == sm.updated_modelV2

\* self.ready after the model check of RadarD.update
ready_after(rdy, sm) == rdy \/ sm.updated_modelV2

\* mutant of state_valid: either condition is enough
state_valid_either(sm, rr) == sm.all_checks \/ Len(radar_errors_of(rr)) = 0

\* radar_state_valid
state_valid(sm, rr) == sm.all_checks /\ Len(radar_errors_of(rr)) = 0

\* whether leadOne and leadTwo are computed
leads_computed(sm) == Len(sm.modelV2.leadsV3) > 1

\* mutant of adjacent_computed: ready is not required
adjacent_computed_unready(sm, rdy, show) == leads_computed(sm) /\ show # 0

\* whether the adjacent-lead lists are computed
adjacent_computed(sm, rdy, show) == leads_computed(sm) /\ rdy /\ show # 0

\* the low_speed_override arguments of the two get_lead calls
LeadOneOverride == TRUE

\* mutant of LeadTwoOverride: leadTwo is computed with the override on
LeadTwoOverride_on == TRUE

LeadTwoOverride == FALSE

model_v_ego_of(sm, vego) ==
  IF Len(sm.modelV2.temporalPose_trans) > 0 THEN sm.modelV2.temporalPose_trans[1] ELSE vego

\* the RadarState message RadarD.update builds
build_radar_state(sm, rr, trks, vego, rdy, show, mix) ==
  LET leads_v3 == sm.modelV2.leadsV3
      model_v_ego == model_v_ego_of(sm, vego)
      adj == IF adjacent_computed(sm, rdy, show)
             THEN get_path_adjacent_leads(vego, <<sm.modelV2>>, sm.laneWidth, trks, mix)
             ELSE << <<>>, <<>>, <<>> >>
  IN [ radarErrors |-> radar_errors_of(rr),
       leadOne |-> IF leads_computed(sm)
                   THEN get_lead(vego, rdy, trks, leads_v3[1], model_v_ego, LeadOneOverride, mix)
                   ELSE DefaultLead,
       leadTwo |-> IF leads_computed(sm)
                   THEN get_lead(vego, rdy, trks, leads_v3[2], model_v_ego, LeadTwoOverride, mix)
                   ELSE DefaultLead,
       leadsLeft |-> adj[1],
       leadsCenter |-> adj[2],
       leadsRight |-> adj[3] ]

\* the value of ar_pts[id]
ar_get(ar_pts, id) == ar_pts[CHOOSE i \in 1..Len(ar_pts) : ar_pts[i].key = id].val

\* the fields RadarD.__init__ sets, but for kalman_params, and the empty history
Constructed ==
  /\ tracks = <<>>
  /\ v_ego = 0
  /\ v_ego_hist = <<0>>
  /\ ready = FALSE
  /\ showRadarInfo = 0
  /\ mixRadarInfo = 0
  /\ radar_state = <<>>
  /\ radar_state_valid = FALSE
  /\ radar_msg = <<>>
  /\ tracks_msg = <<>>
  /\ call = <<>>
  /\ streak = [id \in TrackIds |-> 0]
  /\ lost = {}
  /\ run = [id \in TrackIds |-> <<>>]

\* radard_thread before RadarD is built, for a radar time step of RadarTimeSteps
InitThread ==
  /\ pc = "start"
  /\ delay = 0
  /\ radar_ts \in RadarTimeSteps
  /\ kalman_params = <<>>
  /\ run_bound = MaxCnt
  /\ Constructed

\* RD = RadarD(CP.radarTimeStep, RI.delay): a rejected time step ends radard_thread
\* with the AssertionError
RadarD_init ==
  /\ pc = "start"
  /\ IF KalmanParams_accepts(radar_ts)
     THEN kalman_params' = << KalmanParams(radar_ts) >> /\ pc' = "update"
     ELSE kalman_params' = <<>> /\ pc' = "fatal"
  /\ UNCHANGED << delay, tracks, v_ego, v_ego_hist, ready, showRadarInfo, mixRadarInfo,
                  radar_state, radar_state_valid, radar_msg, tracks_msg, call, streak, lost,
                  radar_ts, run, run_bound >>

Init ==
  /\ pc = "update"
  /\ delay \in Delays
  /\ radar_ts = RADAR_TS
  /\ kalman_params = << KalmanParams(RADAR_TS) >>
  /\ run_bound = MaxCnt
  /\ run = [id \in TrackIds |-> <<>>]
  /\ tracks = <<>>
  /\ v_ego = 0
  /\ v_ego_hist = <<0>>
  /\ ready = FALSE
  /\ showRadarInfo = 0
  /\ mixRadarInfo = 0
  /\ radar_state = <<>>
  /\ radar_state_valid = FALSE
  /\ radar_msg = <<>>
  /\ tracks_msg = <<>>
  /\ call = <<>>
  /\ streak = [id \in TrackIds |-> 0]
  /\ lost = {}

\* int(Params().get(..)) raises TypeError for a parameter that is not set
params_raise(params) == params.missing # {}

\* get_path_adjacent_leads raises IndexError on md_x[-1] when it is called with
\* tracks and the model's path is empty
adjacent_raises(sm, rdy, show, trks) ==
  adjacent_computed(sm, rdy, show) /\ Len(trks) > 0 /\ Len(sm.modelV2.position.x) = 0

\* whether RadarD.update(sm, rr) raises in the current state
update_raises(sm, rr, params) ==
  \/ params_raise(params)
  \/ adjacent_raises(sm, ready_after(ready, sm), params.ShowRadarInfo,
                     update_tracks(tracks, rr,
                       (IF sm.updated_carState
                        THEN deque_append(v_ego_hist, sm.vEgo, delay + 1)
                        ELSE v_ego_hist)[1]))

\* RadarD.update(sm, rr) raising: nothing in radard_thread catches the exception, so
\* the thread ends with what update had assigned before it
RD_update_raises(sm, rr, params) ==
  /\ pc = "update"
  /\ \A id \in ar_keys(ar_pts_of(radar_points_of(rr), Len(radar_points_of(rr)))) :
       streak[id] < run_bound
  /\ update_raises(sm, rr, params)
  /\ IF params_raise(params)
     THEN /\ showRadarInfo' = IF "ShowRadarInfo" \in params.missing THEN showRadarInfo
                              ELSE params.ShowRadarInfo
          /\ UNCHANGED << mixRadarInfo, v_ego, v_ego_hist, ready, tracks, radar_state_valid,
                          radar_state, streak, lost, run >>
     ELSE LET vego == IF sm.updated_carState THEN sm.vEgo ELSE v_ego
              hist == IF sm.updated_carState THEN deque_append(v_ego_hist, sm.vEgo, delay + 1)
                      ELSE v_ego_hist
              rdy == ready_after(ready, sm)
              trks == update_tracks(tracks, rr, hist[1])
              frame == ar_keys(ar_pts_of(radar_points_of(rr), Len(radar_points_of(rr))))
          IN /\ showRadarInfo' = params.ShowRadarInfo
             /\ mixRadarInfo' = params.MixRadarInfo
             /\ v_ego' = vego
             /\ v_ego_hist' = hist
             /\ ready' = rdy
             /\ tracks' = trks
             /\ radar_state_valid' = state_valid(sm, rr)
             /\ radar_state' = << build_radar_state(sm, rr, trks, vego, rdy, 0,
                                                    params.MixRadarInfo) >>
             /\ streak' = [id \in TrackIds |-> IF id \in frame THEN streak[id] + 1 ELSE 0]
             /\ lost' = (lost \ frame)
                          \cup { id \in track_keys(tracks) \ frame : track_of(tracks, id).aLeadK # 0 }
             /\ run' = [id \in TrackIds |->
                          IF id \in frame
                          THEN Append(run[id],
                                      ar_get(ar_pts_of(radar_points_of(rr), Len(radar_points_of(rr))), id).vRel
                                        + hist[1])
                          ELSE <<>>]
  /\ pc' = "terminated"
  /\ UNCHANGED << delay, radar_msg, tracks_msg, call, radar_ts, kalman_params, run_bound >>

\* RadarD.update(sm, rr), reading the parameters params
RD_update(sm, rr, params) ==
  /\ pc = "update"
  /\ \A id \in ar_keys(ar_pts_of(radar_points_of(rr), Len(radar_points_of(rr)))) :
       streak[id] < run_bound
  /\ ~update_raises(sm, rr, params)
  /\ LET vego == IF sm.updated_carState THEN sm.vEgo ELSE v_ego
         hist == IF sm.updated_carState THEN deque_append(v_ego_hist, sm.vEgo, delay + 1)
                 ELSE v_ego_hist
         rdy == ready_after(ready, sm)
         show == params.ShowRadarInfo
         mix == params.MixRadarInfo
         trks == update_tracks(tracks, rr, hist[1])
         frame == ar_keys(ar_pts_of(radar_points_of(rr), Len(radar_points_of(rr))))
     IN /\ showRadarInfo' = show
        /\ mixRadarInfo' = mix
        /\ v_ego' = vego
        /\ v_ego_hist' = hist
        /\ ready' = rdy
        /\ tracks' = trks
        /\ radar_state_valid' = state_valid(sm, rr)
        /\ radar_state' = << build_radar_state(sm, rr, trks, vego, rdy, show, mix) >>
        /\ call' = << [ sm |-> sm, rr |-> rr,
                        leads |-> leads_computed(sm),
                        adjacent |-> adjacent_computed(sm, rdy, show),
                        evicted |-> track_keys(tracks) \ frame,
                        created |-> frame \ track_keys(tracks),
                        recreated |-> frame \cap lost ] >>
        /\ streak' = [id \in TrackIds |-> IF id \in frame THEN streak[id] + 1 ELSE 0]
        /\ lost' = (lost \ frame) \cup { id \in track_keys(tracks) \ frame : track_of(tracks, id).aLeadK # 0 }
        /\ run' = [id \in TrackIds |->
                     IF id \in frame
                     THEN Append(run[id],
                                 ar_get(ar_pts_of(radar_points_of(rr), Len(radar_points_of(rr))), id).vRel
                                   + hist[1])
                     ELSE <<>>]
  /\ pc' = "publish"
  /\ UNCHANGED << delay, radar_msg, tracks_msg, radar_ts, kalman_params, run_bound >>

\* mutant of live_tracks: the tracks in the dict's order, not sorted
live_tracks_unsorted(trks) ==
  [ i \in 1..Len(trks) |->
      [ trackId |-> trks[i].identifier, dRel |-> trks[i].dRel,
        yRel |-> trks[i].yRel, vRel |-> trks[i].vRel ] ]

\* the liveTracks message: the tracks in ascending trackId order
live_tracks(trks) ==
  dict_values(sorted([ i \in 1..Len(trks) |->
    [ key |-> trks[i].identifier,
      val |-> [ trackId |-> trks[i].identifier, dRel |-> trks[i].dRel,
                yRel |-> trks[i].yRel, vRel |-> trks[i].vRel ] ] ]))

\* RadarD.publish(pm, lag_ms)
RD_publish ==
  /\ pc = "publish"
  /\ radar_state # <<>>
  /\ radar_msg' = << [ valid |-> radar_state_valid, radarState |-> radar_state[1] ] >>
  /\ tracks_msg' = << live_tracks(tracks) >>
  /\ pc' = "update"
  /\ UNCHANGED << delay, tracks, v_ego, v_ego_hist, ready, showRadarInfo, mixRadarInfo,
                  radar_state, radar_state_valid, call, streak, lost,
                  radar_ts, kalman_params, run, run_bound >>

\* RD.update(sm, rr) of radard_thread's loop, with the inputs of one cycle
Cycle(inputs) == \E in \in inputs : RD_update(in[1], in[2], in[3])

Next == Cycle(LeadCycles \cup OutputCycles) \/ RD_publish

\* RadarD built with delay = 0
InitNoDelay == Init /\ delay = 0

Spec == InitNoDelay /\ [][Next]_vars

NextTracks == Cycle(TrackCycles) \/ RD_publish

SpecTracks == InitNoDelay /\ [][NextTracks]_vars

NextPath == Cycle(PathCycles) \/ RD_publish

SpecPath == InitNoDelay /\ [][NextPath]_vars

\* RadarD built with delay 0 or 1, one track followed for up to MaxRun frames
InitFilter ==
  /\ pc = "update"
  /\ delay \in Delays
  /\ radar_ts = RADAR_TS
  /\ kalman_params = << KalmanParams(RADAR_TS) >>
  /\ run_bound = MaxRun
  /\ Constructed

NextFilter == Cycle(FilterCycles) \/ RD_publish

SpecFilter == InitFilter /\ [][NextFilter]_vars

\* RD.update(sm, rr) of radard_thread's loop raising, with the inputs of one cycle
CycleRaises(inputs) == \E in \in inputs : RD_update_raises(in[1], in[2], in[3])

NextFaults == Cycle(FaultCycles) \/ CycleRaises(FaultCycles) \/ RD_publish

SpecFaults == InitNoDelay /\ [][NextFaults]_vars

\* the construction of RadarD, for every radar time step of RadarTimeSteps
SpecKalman == InitThread /\ [][RadarD_init]_vars

----------------------------------------------------------------------------
(* Properties *)

\* the arguments of the last RadarD.update
LastPoints == radar_points_of(call[1].rr)

\* the trackIds of the points of the last frame
FrameIds == { LastPoints[k].trackId : k \in 1..Len(LastPoints) }

\* the last point of the last frame with trackId id
FramePoint(id) ==
  LastPoints[CHOOSE k \in 1..Len(LastPoints) :
               /\ LastPoints[k].trackId = id
               /\ \A m \in (k + 1)..Len(LastPoints) : LastPoints[m].trackId # id]

\* C1: after every RadarD.update the identifiers of the track map are exactly the
\* trackIds of the frame passed to that call, each once; an update with a missing
\* frame (rr is None) leaves the map empty.
C1_TrackMapIsFrame ==
  /\ call # <<>> =>
       /\ track_keys(tracks) = FrameIds
       /\ Cardinality(track_keys(tracks)) = Len(tracks)
  /\ update_tracks(tracks, <<>>, v_ego_hist[1]) = <<>>

\* C1 witness: an update that destroyed a track, created another and kept the map
\* non-empty
C1_Witness ==
  /\ call # <<>>
  /\ call[1].evicted # {}
  /\ call[1].created # {}
  /\ tracks # <<>>

\* C2: a track exists for id exactly while the latest frames hold id, its cnt is the
\* number of latest frames in a row that hold id (one update per frame, however many
\* points of the frame carry id), and in the first frame of such a run, also after an
\* absence, the track is fresh: cnt = 1, aLeadTau = 1.5, the filter seeded with the
\* new vLead and zero acceleration.
C2_TrackLifecycle ==
  \A id \in TrackIds :
    /\ (id \in track_keys(tracks)) <=> (streak[id] > 0)
    /\ id \in track_keys(tracks) =>
         LET t == track_of(tracks, id)
         IN /\ t.cnt = streak[id]
            /\ streak[id] = 1 =>
                 /\ t.aLeadTau = LEAD_ACCEL_TAU
                 /\ t.vLead = FramePoint(id).vRel + v_ego_hist[1]
                 /\ t.kf = <<t.vLead, 0>>
                 /\ t.vLeadK = t.vLead
                 /\ t.aLeadK = 0

\* C2 witness: an id whose earlier track carried a non-zero acceleration estimate is
\* back, after an absence, with a fresh track seeded with a non-zero vLead
C2_Witness ==
  /\ call # <<>>
  /\ \E id \in call[1].recreated :
    /\ streak[id] = 1
    /\ id \in track_keys(tracks)
    /\ track_of(tracks, id).cnt = 1
    /\ track_of(tracks, id).vLeadK # 0

\* the state right after RadarD.publish
Published == pc = "update" /\ call # <<>>

\* the radar state built by the last RadarD.update and the hypotheses it read
LeadOne == radar_state[1].leadOne
LeadTwo == radar_state[1].leadTwo
LastLeads == call[1].sm.modelV2.leadsV3
LastModelVEgo == model_v_ego_of(call[1].sm, v_ego)
LeadsRan == call # <<>> /\ call[1].leads

\* hypotheses, model ego speeds and mix modes get_lead is probed with in every state:
\* a near slow lead and a far fast one, at prob 0, 0.5, 0.51 and 0.95
ProbeLeads ==
  { Lead(xv[1], 0, xv[2], 0, 100, p) :
      xv \in { <<652, 0>>, <<5000, 1500>> }, p \in {0, 50, 51, 95} }
ProbeModelVEgo == {0, 1000}
MixModes == {0, 1}

\* the three outcomes of get_lead without the override, for the result r of
\* hypothesis L on the current tracks
ThreeOutcomes(r, L, mv, mix) ==
  LET confident == ready /\ L.prob > 50
  IN IF /\ Len(tracks) > 0
        /\ confident
        /\ dist_sane(L, best_match(v_ego, L, tracks))
        /\ vel_sane(v_ego, L, best_match(v_ego, L, tracks))
     THEN /\ r.radar
          /\ r.status
          /\ r = get_RadarState2(track_of(tracks, r.radarTrackId), L.prob, L, mix)
          /\ \A i \in 1..Len(tracks) :
               match_exponent(v_ego, L, tracks[i])
                 >= match_exponent(v_ego, L, track_of(tracks, r.radarTrackId))
     ELSE IF confident
     THEN /\ r = get_RadarState_from_vision(L, v_ego, mv)
          /\ r.status /\ ~r.radar /\ r.radarTrackId = -1
          /\ r.dRel = L.x[1] - RADAR_TO_CAMERA
     ELSE r = DefaultLead /\ ~r.status /\ ~r.radar

\* C3: get_lead with low_speed_override off returns exactly one of three records: the
\* projected record of the best-scoring track (radar) iff the track map is non-empty,
\* ready holds, prob > 0.5 and that track passes both sanity gates; otherwise the
\* vision-only record (radar false, radarTrackId -1) iff ready and prob > 0.5;
\* otherwise the record with status false.  Stated for every probe hypothesis on
\* the current track map, and for the leadTwo of every cycle.
C3_ThreeOutcomes ==
  /\ \A L \in ProbeLeads, mv \in ProbeModelVEgo, mix \in MixModes :
       ThreeOutcomes(get_lead(v_ego, ready, tracks, L, mv, FALSE, mix), L, mv, mix)
  /\ LeadsRan => ThreeOutcomes(LeadTwo, LastLeads[2], LastModelVEgo, mixRadarInfo)

\* C3 witness: a cycle whose leadTwo is the vision-only record although tracks exist,
\* because the sanity gates rejected the best-scoring track
C3_Witness ==
  /\ LeadsRan
  /\ ready
  /\ Len(tracks) > 0
  /\ LastLeads[2].prob > 50
  /\ ~dist_sane(LastLeads[2], best_match(v_ego, LastLeads[2], tracks))
  /\ LeadTwo.status
  /\ ~LeadTwo.radar

\* C4: for a hypothesis with prob <= 0.5, whatever the tracks and the ready flag,
\* get_lead does not call the association, chooses no track, and without the
\* override returns the record with status false.
C4_NoMatchAtHalf ==
  /\ \A L \in ProbeLeads, mv \in ProbeModelVEgo, mix \in MixModes, rdy \in BOOLEAN :
       L.prob <= 50 =>
         /\ ~association_called(rdy, tracks, L)
         /\ get_lead_track(v_ego, rdy, tracks, L) = <<>>
         /\ ~get_lead(v_ego, rdy, tracks, L, mv, FALSE, mix).status
  /\ (LeadsRan /\ LastLeads[2].prob <= 50) => (~LeadTwo.status /\ ~LeadTwo.radar)

\* C4 witness: ready, a hypothesis 1 at prob 0.5 exactly and a track that passes both
\* sanity gates for it, and leadTwo has status false
C4_Witness ==
  /\ LeadsRan
  /\ ready
  /\ LastLeads[2].prob = 50
  /\ Len(tracks) > 0
  /\ match_vision_to_track(v_ego, LastLeads[2], tracks) # <<>>
  /\ ~LeadTwo.status

\* the indices of the tracks that satisfy potential_low_speed_lead(v_ego)
LowSpeedIdx == { i \in 1..Len(tracks) : potential_low_speed_lead(tracks[i], v_ego) }

\* the override step: base is the record before it, r the record get_lead returns
OverrideStep(base, r) ==
  IF LowSpeedIdx = {} THEN r = base
  ELSE LET m == CHOOSE d \in { tracks[i].dRel : i \in LowSpeedIdx } :
                  \A i \in LowSpeedIdx : d <= tracks[i].dRel
           replaced == (~base.status) \/ m < base.dRel
       IN /\ replaced =>
               /\ r.radar
               /\ r.dRel = m
               /\ \E i \in LowSpeedIdx : /\ tracks[i].identifier = r.radarTrackId
                                         /\ tracks[i].dRel = m
          /\ ~replaced => r = base
          /\ r.status
          /\ r.dRel <= m

\* C5: with low_speed_override on and at least one track satisfying
\* potential_low_speed_lead(vEgo), the one with the smallest dRel replaces the lead
\* record iff that record has status false or the track's dRel is strictly smaller;
\* the returned record then has status true and dRel no larger than the smallest
\* dRel of the qualifying tracks; when no track qualifies the record is unchanged.
C5_LowSpeedOverride ==
  /\ \A L \in ProbeLeads, mv \in ProbeModelVEgo, mix \in MixModes :
       OverrideStep(get_lead(v_ego, ready, tracks, L, mv, FALSE, mix),
                    get_lead(v_ego, ready, tracks, L, mv, TRUE, mix))
  /\ LeadsRan =>
       OverrideStep(get_lead(v_ego, ready, tracks, LastLeads[1], LastModelVEgo, FALSE, mixRadarInfo),
                    LeadOne)

\* C5 witness: leadOne is the closer of two qualifying tracks, the second of the map,
\* and it replaced a vision-only record farther away
C5_Witness ==
  /\ LeadsRan
  /\ Cardinality(LowSpeedIdx) = 2
  /\ tracks[2].dRel < tracks[1].dRel
  /\ LeadOne.radar
  /\ LeadOne.radarTrackId = tracks[2].identifier
  /\ LET base == get_lead(v_ego, ready, tracks, LastLeads[1], LastModelVEgo, FALSE, mixRadarInfo)
     IN base.status /\ ~base.radar /\ base.dRel > LeadOne.dRel

\* C6: leadOne and leadTwo are computed iff the model supplies at least two lead
\* hypotheses; leadOne is get_lead on hypothesis 0 with the override on, leadTwo is
\* get_lead on hypothesis 1 with the override off, so leadTwo has status false
\* whenever not ready or hypothesis 1 has prob <= 0.5, even if low-speed tracks
\* qualify; with fewer than two hypotheses both leads are the default record.
C6_LeadOneLeadTwo ==
  call # <<>> =>
    /\ call[1].leads <=> (Len(LastLeads) >= 2)
    /\ Len(LastLeads) >= 2 =>
         /\ LeadOne = get_lead(v_ego, ready, tracks, LastLeads[1], LastModelVEgo, TRUE, mixRadarInfo)
         /\ LeadTwo = get_lead(v_ego, ready, tracks, LastLeads[2], LastModelVEgo, FALSE, mixRadarInfo)
         /\ ((~ready) \/ LastLeads[2].prob <= 50) => ~LeadTwo.status
    /\ Len(LastLeads) < 2 => (LeadOne = DefaultLead /\ LeadTwo = DefaultLead)

\* C6 witness: low-speed tracks qualify and leadOne is one of them, while hypothesis 1
\* has prob 0.5 and leadTwo has status false
C6_Witness ==
  /\ LeadsRan
  /\ ready
  /\ LowSpeedIdx # {}
  /\ LastLeads[2].prob <= 50
  /\ LeadOne.status /\ LeadOne.radar
  /\ ~LeadTwo.status

\* the step is a RadarD.update
UpdateStep == pc = "update" /\ pc' = "publish"

\* before ready latches no lead comes from the association or the vision-only record
NoVisionLeadBeforeReady ==
  (call # <<>> /\ ~ready) =>
    /\ ~LeadTwo.status
    /\ LeadOne.status =>
         /\ LeadOne.radar
         /\ \E i \in LowSpeedIdx : tracks[i].identifier = LeadOne.radarTrackId
    /\ \A L \in ProbeLeads, mv \in ProbeModelVEgo, mix \in MixModes :
         get_lead(v_ego, ready, tracks, L, mv, FALSE, mix) = DefaultLead

\* C7: ready is false at construction, becomes true in the first cycle in which the
\* modelV2 message is updated, and is never false again; in every cycle before it
\* latches leadTwo has status false and leadOne has status true only through the
\* low-speed override.
C7_ReadyLatches ==
  /\ ~ready
  /\ [][ready' = (ready \/ (UpdateStep /\ call'[1].sm.updated_modelV2))]_vars
  /\ []NoVisionLeadBeforeReady

\* C7 witness: before ready latched, with two confident hypotheses and tracks,
\* leadOne is a low-speed track and leadTwo has status false
C7_Witness ==
  /\ LeadsRan
  /\ ~ready
  /\ LastLeads[1].prob > 50
  /\ LastLeads[2].prob > 50
  /\ Len(tracks) > 0
  /\ LeadOne.status
  /\ ~LeadTwo.status

\* C8: every cycle that runs RadarD.update publishes a radarState message (the
\* assertion of publish holds after every update), whose valid flag is true iff all
\* subscription checks pass and the radar error list of the cycle is empty, and
\* whose radarErrors are the errors of the cycle.
C8_PublishValidity ==
  /\ pc = "publish" => radar_state # <<>>
  /\ call # <<>> =>
       /\ radar_state_valid <=>
            (call[1].sm.all_checks /\ radar_errors_of(call[1].rr) = <<>>)
       /\ radar_state[1].radarErrors = radar_errors_of(call[1].rr)
  /\ Published =>
       /\ radar_msg # <<>>
       /\ radar_msg[1].valid <=>
            (call[1].sm.all_checks /\ radar_errors_of(call[1].rr) = <<>>)
       /\ radar_msg[1].radarState = radar_state[1]
       /\ radar_msg[1].radarState.radarErrors = radar_errors_of(call[1].rr)

\* C8 witness: a message published invalid, carrying the radar error of its cycle,
\* although every subscription check passed
C8_Witness ==
  /\ Published
  /\ call[1].sm.all_checks
  /\ radar_errors_of(call[1].rr) = <<"canError">>
  /\ ~radar_msg[1].valid
  /\ radar_msg[1].radarState.radarErrors = <<"canError">>

\* the adjacent-lead lists of the radar state
AdjacentLists ==
  << radar_state[1].leadsLeft, radar_state[1].leadsCenter, radar_state[1].leadsRight >>

\* C9 as stated: the adjacent-lead lists are computed and written iff ready is true
\* and ShowRadarInfo is non-zero, independently of the number of lead hypotheses.
C9_AsStated ==
  call # <<>> => (call[1].adjacent <=> (ready /\ showRadarInfo # 0))

\* C9 amended: the adjacent-lead lists are computed and written iff ready is true,
\* ShowRadarInfo is non-zero and the model supplies at least two lead hypotheses;
\* they are then the lists of get_path_adjacent_leads on the cycle's tracks, and
\* otherwise they stay empty.
C9_AdjacentLists ==
  call # <<>> =>
    /\ call[1].adjacent <=> (ready /\ showRadarInfo # 0 /\ Len(LastLeads) >= 2)
    /\ call[1].adjacent =>
         AdjacentLists = get_path_adjacent_leads(v_ego, <<call[1].sm.modelV2>>,
                                                 call[1].sm.laneWidth, tracks, mixRadarInfo)
    /\ ~call[1].adjacent => AdjacentLists = << <<>>, <<>>, <<>> >>

\* C9 witness: the lists were computed and the center list holds the two tracks
C9_Witness ==
  /\ call # <<>>
  /\ call[1].adjacent
  /\ Len(tracks) = 2
  /\ Len(radar_state[1].leadsCenter) = 2

\* C10: the liveTracks message published in a cycle lists exactly the tracks of the
\* map after that cycle's update, one per identifier of the frame, in strictly
\* ascending trackId order, with dRel, yRel, vRel of the frame's point for that
\* identifier; no lead of the published radarState refers to an evicted track.
C10_PublishAfterUpsert ==
  Published =>
    /\ tracks_msg # <<>>
    /\ radar_msg # <<>>
    /\ LET lt == tracks_msg[1]
       IN /\ Len(lt) = Len(tracks)
          /\ { lt[i].trackId : i \in 1..Len(lt) } = FrameIds
          /\ \A i, j \in 1..Len(lt) : i < j => lt[i].trackId < lt[j].trackId
          /\ \A i \in 1..Len(lt) :
               /\ lt[i].dRel = FramePoint(lt[i].trackId).dRel
               /\ lt[i].yRel = FramePoint(lt[i].trackId).yRel
               /\ lt[i].vRel = FramePoint(lt[i].trackId).vRel
    /\ \A lead \in { radar_msg[1].radarState.leadOne, radar_msg[1].radarState.leadTwo } :
         lead.radar => /\ lead.radarTrackId \in FrameIds
                       /\ lead.radarTrackId \notin call[1].evicted

\* C10 witness: two tracks held in descending identifier order are published, in a
\* cycle whose leadOne is a radar lead
C10_Witness ==
  /\ Published
  /\ tracks_msg # <<>>
  /\ Len(tracks) = 2
  /\ tracks[1].identifier > tracks[2].identifier
  /\ radar_msg[1].radarState.leadOne.radar

\* C11 as stated: every radar time step in the closed range [0.01, 0.20] s is
\* accepted, at the table points 0.01 * k, k in 1..20, both endpoints included, the
\* gains are the k-th tabulated values, and a time step outside the range is rejected
\* with a fatal error.
C11_AsStated ==
  pc # "start" =>
    IF radar_ts >= 100 /\ radar_ts <= 2000
    THEN /\ pc # "fatal"
         /\ kalman_params # <<>>
         /\ \A k \in 1..20 :
              radar_ts = 100 * k => kalman_params[1].K = << KalmanK0[k], KalmanK1[k] >>
    ELSE pc = "fatal"

\* C12 as stated: no fault raised inside a cycle escapes it: after a fault in
\* RadarD.update (a parameter that is not set, an empty model path) the loop goes on
\* with an output marked invalid, it does not terminate.
C12_AsStated == pc # "terminated"

\* the filter state after the first n updates of a run with the vLead values seq:
\* seeded with the first, stepped with each later one
RECURSIVE ReplayKf(_, _)
ReplayKf(seq, n) ==
  IF n <= 1 THEN << seq[1], 0 >>
  ELSE KF1D_update(ReplayKf(seq, n - 1), seq[n])

\* the number of latest updates in a row of the run whose aLeadK was at least 0.5
RECURSIVE Decays(_, _)
Decays(seq, n) ==
  IF n = 0 THEN 0
  ELSE IF Abs(ReplayKf(seq, n)[2]) >= 50 THEN 1 + Decays(seq, n - 1)
  ELSE 0

RECURSIVE Pow(_, _)
Pow(b, n) == IF n = 0 THEN 1 ELSE b * Pow(b, n - 1)

\* C13: aLeadTau of every track lies in (0, 1.5]; it is 1.5 * 0.9^N after N updates in
\* a row with |aLeadK| >= 0.5, and 1.5 after an update with |aLeadK| < 0.5.
C13_ALeadTau ==
  \A i \in 1..Len(tracks) :
    LET t == tracks[i]
        N == Decays(run[t.identifier], Len(run[t.identifier]))
    IN /\ t.aLeadTau > 0
       /\ t.aLeadTau <= LEAD_ACCEL_TAU
       /\ LEAD_ACCEL_TAU % Pow(TauDecayDen, N) = 0
       /\ t.aLeadTau = (LEAD_ACCEL_TAU \div Pow(TauDecayDen, N)) * Pow(TauDecayNum, N)
       /\ Abs(t.aLeadK) < 50 => t.aLeadTau = LEAD_ACCEL_TAU

\* C13 witness: a track whose aLeadTau is 1.5 again after two updates that decayed it
C13_Witness ==
  \E i \in 1..Len(tracks) :
    LET seq == run[tracks[i].identifier]
    IN /\ Len(seq) = 4
       /\ Decays(seq, 3) = 2
       /\ Decays(seq, 4) = 0
       /\ tracks[i].aLeadTau = LEAD_ACCEL_TAU

\* seeds and measurements Track is probed with
ProbeVLead == {-500, 0, 1000}

\* C14: the filter of a track is not stepped on its first update and is stepped once
\* on every later one: after cnt updates it is the seed stepped with the vLead of
\* updates 2..cnt; after the first update vLeadK is the seed given to the
\* constructor, which is the vLead that update stored, aLeadK = 0, aLeadTau = 1.5
\* and cnt = 1.
C14_FilterSteps ==
  /\ \A i \in 1..Len(tracks) :
       LET t == tracks[i]
           seq == run[t.identifier]
       IN /\ t.cnt = Len(seq)
          /\ t.kf = ReplayKf(seq, Len(seq))
          /\ t.vLeadK = t.kf[1] /\ t.aLeadK = t.kf[2]
          /\ t.cnt = 1 =>
               /\ t.vLeadK = seq[1] /\ t.vLead = seq[1]
               /\ t.aLeadK = 0 /\ t.aLeadTau = LEAD_ACCEL_TAU
  /\ \A seed \in ProbeVLead, v \in ProbeVLead :
       LET t1 == Track_update(Track_init(1, seed), 1000, 0, 0, v, TRUE)
           t2 == Track_update(t1, 1000, 0, 0, v, TRUE)
       IN /\ t1.cnt = 1 /\ t1.vLeadK = seed /\ t1.aLeadK = 0 /\ t1.vLead = v
          /\ t1.aLeadTau = LEAD_ACCEL_TAU
          /\ t2.cnt = 2 /\ t2.kf = KF1D_update(<< seed, 0 >>, v)

\* C14 witness: a track updated MaxRun times whose filter moved in every step after
\* the first
C14_Witness ==
  \E i \in 1..Len(tracks) :
    LET seq == run[tracks[i].identifier]
    IN /\ Len(seq) = MaxRun
       /\ tracks[i].cnt = MaxRun
       /\ \A n \in 2..MaxRun : ReplayKf(seq, n) # ReplayKf(seq, n - 1)

\* the effect of one RadarD.update on vEgo and the ego-velocity history
HistoryStep ==
  UpdateStep =>
    IF call'[1].sm.updated_carState
    THEN LET a == Append(v_ego_hist, call'[1].sm.vEgo)
         IN /\ v_ego' = call'[1].sm.vEgo
            /\ v_ego_hist' = IF Len(a) > delay + 1 THEN SubSeq(a, Len(a) - delay, Len(a)) ELSE a
    ELSE v_ego' = v_ego /\ v_ego_hist' = v_ego_hist

\* the history is never longer than delay + 1 and every track of the cycle has
\* vLead = vRel + the oldest sample kept
HistoryUse ==
  /\ Len(v_ego_hist) >= 1
  /\ Len(v_ego_hist) <= delay + 1
  /\ delay = 0 => v_ego_hist = << v_ego >>
  /\ call # <<>> =>
       \A i \in 1..Len(tracks) :
         tracks[i].vLead = FramePoint(tracks[i].identifier).vRel + v_ego_hist[1]

\* C15: the ego-velocity history holds the last delay + 1 samples: a cycle with a
\* car-state update appends vEgo and drops the oldest sample when full, a cycle
\* without one leaves vEgo and the history unchanged, every track updated in a cycle
\* gets vLead = vRel + v_ego_hist[0], the oldest sample kept, and with delay = 0 that
\* is the current vEgo.
C15_EgoHistory == [][HistoryStep]_vars /\ []HistoryUse

\* C15 witness: with delay 1 a track got its vLead from the older sample, which is
\* not the current vEgo
C15_Witness ==
  /\ call # <<>>
  /\ delay = 1
  /\ Len(v_ego_hist) = 2
  /\ v_ego_hist[1] # v_ego
  /\ Len(tracks) = 1
  /\ tracks[1].vLead = tracks[1].vRel + v_ego_hist[1]

\* the entries of the three adjacent-lead lists, and the entries of a list for a track
AdjacentEntries ==
  UNION { { AdjacentLists[n][i] : i \in 1..Len(AdjacentLists[n]) } : n \in 1..3 }

ListHolds(lst, t) == \E i \in 1..Len(lst) : lst[i].ld.radarTrackId = t.identifier

\* the model path as the claim reads it: of TRAJECTORY_SIZE points and extending
\* beyond 60 m
PathAvailable(md) ==
  /\ Len(md.position.x) = TRAJECTORY_SIZE
  /\ Last(md.position.x) > LEAD_PATH_DREL_MIN

\* C16 as stated: when both lane-line probabilities are at most 0.6 and no model path
\* is available (wrong length, or not extending beyond 60 m), every track's dPath is
\* -yRel, whatever its dRel.
C16_AsStated ==
  (/\ call # <<>>
   /\ call[1].adjacent
   /\ call[1].sm.modelV2.laneLineProbs[2] <= MIN_LANE_PROB
   /\ call[1].sm.modelV2.laneLineProbs[3] <= MIN_LANE_PROB
   /\ ~PathAvailable(call[1].sm.modelV2))
  => \A e \in AdjacentEntries : e.dPath = 0 - track_of(tracks, e.ld.radarTrackId).yRel

\* C17 as stated: a track is in the center list iff |dPath| < laneWidth/2 and
\* vLeadK > -1, otherwise in the left list iff dPath < 0, otherwise in the right list;
\* left and right are in ascending |dPath| order, center in ascending dRel order.
C17_AsStated ==
  (call # <<>> /\ call[1].adjacent) =>
    /\ \A i \in 1..Len(tracks) :
         LET t == tracks[i]
             md == << call[1].sm.modelV2 >>
             dPath == cluster_dPath(t, md, lane_center(md, call[1].sm.laneWidth))
             center == Abs(dPath) < call[1].sm.laneWidth \div 2 /\ t.vLeadK > -100
         IN /\ ListHolds(AdjacentLists[2], t) <=> center
            /\ ListHolds(AdjacentLists[1], t) <=> (~center /\ dPath < 0)
            /\ ListHolds(AdjacentLists[3], t) <=> (~center /\ dPath >= 0)
    /\ \A n \in {1, 3} : \A i, j \in 1..Len(AdjacentLists[n]) :
         i < j => Abs(AdjacentLists[n][i].dPath) <= Abs(AdjacentLists[n][j].dPath)
    /\ \A i, j \in 1..Len(AdjacentLists[2]) :
         i < j => AdjacentLists[2][i].ld.dRel <= AdjacentLists[2][j].ld.dRel

\* C19 as stated: every track of a non-empty track map is in exactly one of the three
\* lists, so their lengths add up to the number of tracks, also when two tracks of a
\* corridor have the same |dPath|.
C19_AsStated ==
  (call # <<>> /\ call[1].adjacent) =>
    /\ Len(AdjacentLists[1]) + Len(AdjacentLists[2]) + Len(AdjacentLists[3]) = Len(tracks)
    /\ \A i \in 1..Len(tracks) :
         Cardinality({ n \in 1..3 : ListHolds(AdjacentLists[n], tracks[i]) }) = 1

\* hypotheses and mix modes get_RadarState2 is probed with: with and without lateral
\* offset, decelerating, steady and accelerating, at prob 0.5, 0.51, 0.9 and 0.91
ProbeMixLeads ==
  { Lead(1000, y, 0, a, 100, p) : y \in {0, -20}, a \in {-300, 0, 100}, p \in {50, 51, 90, 91} }
ProbeMixModes == {-1, 0, 1}

\* the record r is the projection of track T with hypothesis L and mix mode m
Projected(r, T, L, m) ==
  /\ r.aLeadK = IF m > 0 /\ L.prob > 50 /\ Abs(T.aLeadK) < Abs(L.a[1])
                THEN L.a[1] ELSE T.aLeadK
  /\ r.yRel = IF m # 0 /\ T.yRel = 0 THEN 0 - L.y[1] ELSE T.yRel
  /\ m = 0 => r.aLeadK = T.aLeadK /\ r.yRel = T.yRel
  /\ r.dRel = T.dRel /\ r.vRel = T.vRel /\ r.vLead = T.vLead
  /\ r.vLeadK = T.vLeadK /\ r.aLeadTau = T.aLeadTau
  /\ r.fcw <=> L.prob > 90

\* every track carries what the radar frames gave it: the last point's dRel, yRel and
\* vRel, and the filter state replayed from the vLead values of its updates
TracksOwnValues ==
  \A i \in 1..Len(tracks) :
    LET t == tracks[i]
    IN /\ t.dRel = FramePoint(t.identifier).dRel
       /\ t.yRel = FramePoint(t.identifier).yRel
       /\ t.vRel = FramePoint(t.identifier).vRel
       /\ t.kf = ReplayKf(run[t.identifier], Len(run[t.identifier]))
       /\ t.vLeadK = t.kf[1] /\ t.aLeadK = t.kf[2]

\* C18: the lead record projected from a track T with hypothesis L and mix mode m has
\* aLeadK = L.a[0] iff m > 0, L.prob > 0.5 and |T.aLeadK| < |L.a[0]|, else T.aLeadK;
\* yRel = -L.y[0] iff m # 0 and T.yRel = 0, else T.yRel; with m = 0 only the track's
\* own values; fcw iff L.prob > 0.9; and the track keeps its own values.
C18_ProjectedRecord ==
  /\ \A i \in 1..Len(tracks), L \in ProbeMixLeads, m \in ProbeMixModes :
       Projected(get_RadarState2(tracks[i], L.prob, L, m), tracks[i], L, m)
  /\ LeadsRan =>
       /\ \A n \in 1..2 :
            LET r == IF n = 1 THEN LeadOne ELSE LeadTwo
            IN (r.status /\ r.radar) =>
                 Projected(r, track_of(tracks, r.radarTrackId), LastLeads[n], mixRadarInfo)
       /\ TracksOwnValues

\* C18 witness: with mixing on, leadTwo is a track's record that carries the
\* hypothesis' acceleration while the track keeps its own
C18_Witness ==
  /\ LeadsRan
  /\ mixRadarInfo > 0
  /\ LeadTwo.status /\ LeadTwo.radar
  /\ LeadTwo.aLeadK = LastLeads[2].a[1]
  /\ track_of(tracks, LeadTwo.radarTrackId).aLeadK # LeadTwo.aLeadK

\* C20: a computed lead with status and radar set names a track of the map of the same
\* cycle and has its dRel, vRel and vLead; one with status set and radar unset has
\* radarTrackId -1, aLeadK 0 and aLeadTau 0.3; and the tracks after the leads and the
\* adjacent-lead lists were computed are those the radar frames made.
C20_LeadConsistency ==
  call # <<>> =>
    /\ \A r \in { LeadOne, LeadTwo } :
         /\ (r.status /\ r.radar) =>
              /\ r.radarTrackId \in track_keys(tracks)
              /\ r.dRel = track_of(tracks, r.radarTrackId).dRel
              /\ r.vRel = track_of(tracks, r.radarTrackId).vRel
              /\ r.vLead = track_of(tracks, r.radarTrackId).vLead
         /\ (r.status /\ ~r.radar) =>
              /\ r.radarTrackId = -1
              /\ r.aLeadK = 0
              /\ r.aLeadTau = VISION_A_LEAD_TAU
    /\ track_keys(tracks) = FrameIds
    /\ TracksOwnValues

\* C20 witness: a cycle with leadOne from a track and leadTwo from vision alone
C20_Witness ==
  /\ LeadsRan
  /\ Len(tracks) > 0
  /\ LeadOne.status /\ LeadOne.radar
  /\ LeadTwo.status /\ ~LeadTwo.radar

====
